---- MODULE Spec2Model ----
(***************************************************************************)
(* BillBuddy back end (src/back_end/main.py, src/back_end/models.py).      *)
(*                                                                         *)
(* Money is modelled in integer cents: the float 0.01 is the integer 1.    *)
(* The store is the four MongoDB collections; every HTTP handler is one    *)
(* action whose effect is computed by an operator taken from its code.     *)
(***************************************************************************)
EXTENDS Integers, Sequences, FiniteSets, TLC

VARIABLES users, groups, expenses, payments, last, split_in, split_out, signups

vars == <<users, groups, expenses, payments, last, split_in, split_out, signups>>

store == <<users, groups, expenses, payments>>

(***************************************************************************)
(* Bounds of the model.                                                    *)
(***************************************************************************)
MaxAmount == 2
MaxSplitAmount == 7
MaxSplitParts == 4
MaxStored == 1
MaxExpenses == 2
MaxPayments == 1
MaxGroups == 1
MaxWorkers == 2
MaxGroupDocs == 2

(***************************************************************************)
(* Email addresses. The ledger uses three of them, the split calculator    *)
(* is exercised with four so that a four-way split of distinct people      *)
(* happens.                                                                *)
(***************************************************************************)
Emails == {"a", "b", "c"}
SplitEmails == {"a", "b", "c", "d"}

(***************************************************************************)
(* The users collection: users[e] is the number of user records whose      *)
(* email is e. database.py creates no index, so nothing in the database    *)
(* keeps the number at one. Every query of the program is a find_one by    *)
(* email, which sees whether a record exists.                              *)
(***************************************************************************)
NoUsers == [e \in Emails |-> 0]

Registered == {e \in Emails : users[e] > 0}

(***************************************************************************)
(* Server processes that serve POST /signup side by side against the one   *)
(* database: signups[w] is where process w stands in its signup handler.   *)
(***************************************************************************)
Workers == 1..MaxWorkers

NoSignups == [w \in Workers |-> [pc |-> "idle", email |-> ""]]

Abs(x) == IF x < 0 THEN -x ELSE x

Range(s) == {s[i] : i \in 1..Len(s)}

SeqsUpTo(S, lo, hi) == UNION {[1..n -> S] : n \in lo..hi}

(***************************************************************************)
(* Optional[Dict[EmailStr, float]]: None, or a mapping email -> cents.     *)
(***************************************************************************)
EmptyMap == [e \in {} |-> 0]
NoSplits == [none |-> TRUE, map |-> EmptyMap]
SomeSplits(m) == [none |-> FALSE, map |-> m]

RECURSIVE MapSum(_)
MapSum(m) ==
    IF DOMAIN m = {} THEN 0
    ELSE LET k == CHOOSE x \in DOMAIN m : TRUE
         IN m[k] + MapSum([x \in DOMAIN m \ {k} |-> m[x]])

(***************************************************************************)
(* round(amount / n, 2) on IEEE-754 doubles, for amount = c cents.         *)
(* Off a tie the result is the nearest cent. On a tie (c/n ends in half a  *)
(* cent) the double nearest to amount/n lies just below or just above the  *)
(* half cent and round() follows it: TieRoundsDown lists the (c, n) with   *)
(* c <= 60 and n <= 8 whose double lies below, e.g. round(0.03 / 2, 2) =   *)
(* 0.01 although round(0.01 / 2, 2) = 0.01 too.                            *)
(***************************************************************************)
TieRoundsDown ==
    { <<3, 2>>, <<9, 2>>, <<15, 2>>, <<21, 2>>, <<25, 2>>, <<29, 2>>,
      <<31, 2>>, <<35, 2>>, <<37, 2>>, <<41, 2>>, <<43, 2>>, <<47, 2>>,
      <<49, 2>>, <<57, 2>>, <<59, 2>>,
      <<6, 4>>, <<18, 4>>, <<30, 4>>, <<42, 4>>, <<50, 4>>, <<58, 4>>,
      <<9, 6>>, <<15, 6>>, <<21, 6>>, <<45, 6>>, <<57, 6>>,
      <<12, 8>>, <<36, 8>>, <<60, 8>> }

RoundShareFloor(c, n) == c \div n

RoundShare(c, n) ==
    LET q == c \div n
        r == c % n
    IN IF 2 * r < n THEN q
       ELSE IF 2 * r > n THEN q + 1
       ELSE IF <<c, n>> \in TieRoundsDown THEN q
       ELSE q + 1

EqualSplit(amount, participants) ==
    LET share == RoundShare(amount, Len(participants))
    IN [p \in Range(participants) |-> share]

(***************************************************************************)
(* calculate_split(expense): expense is the Expense model                  *)
(* [amount, participants, paid_by, split_method, split_amounts].           *)
(***************************************************************************)
calculate_splitNoFallback(expense) ==
    IF expense.split_method = "custom"
    THEN expense.split_amounts.map
    ELSE EqualSplit(expense.amount, expense.participants)

calculate_split(expense) ==
    IF expense.split_method = "equal"
    THEN EqualSplit(expense.amount, expense.participants)
    ELSE IF expense.split_method = "custom"
    THEN IF \/ expense.split_amounts.none
            \/ DOMAIN expense.split_amounts.map = {}
            \/ ~(Range(expense.participants) \subseteq DOMAIN expense.split_amounts.map)
         THEN EqualSplit(expense.amount, expense.participants)
         ELSE IF MapSum(expense.split_amounts.map) # expense.amount
              THEN EqualSplit(expense.amount, expense.participants)
              ELSE expense.split_amounts.map
    ELSE EqualSplit(expense.amount, expense.participants)

(***************************************************************************)
(* calculate_user_balance(splits, paid_by, current_user_email).            *)
(***************************************************************************)
calculate_user_balance(splits, paid_by, current_user_email) ==
    IF current_user_email = paid_by
    THEN [p \in DOMAIN splits \ {current_user_email} |-> splits[p]]
    ELSE IF current_user_email \in DOMAIN splits
    THEN [p \in {paid_by} |-> -splits[current_user_email]]
    ELSE EmptyMap

(***************************************************************************)
(* Identifiers and timestamps.                                             *)
(*   group_id: None, a well-formed ObjectId string (n >= 1 is the id of    *)
(*   the n-th group inserted, n = 0 an ObjectId no group has), or a string *)
(*   ObjectId() refuses.                                                   *)
(*   created_at: "datetime" is a datetime value; the other kinds are       *)
(*   strings: "iso" parses with datetime.fromisoformat, "epoch" (such as   *)
(*   "1700000000") is a datetime for pydantic but not for fromisoformat,   *)
(*   "bad" is a datetime for neither, "empty" is the empty string.         *)
(***************************************************************************)
GidNone == [kind |-> "none", n |-> 0]
GidMissing == [kind |-> "oid", n |-> 0]
GidMalformed == [kind |-> "malformed", n |-> 0]
Gid(n) == [kind |-> "oid", n |-> n]

GroupExists(gid) == gid.kind = "oid" /\ gid.n \in 1..Len(groups)

FromIsoFormatOkAny(created_at) == created_at \in {"datetime", "iso", "epoch", "bad", "empty"}

FromIsoFormatOk(created_at) == created_at \in {"datetime", "iso"}

ResponseDatetimeOk(created_at) == created_at \in {"datetime", "iso", "epoch"}

(***************************************************************************)
(* Dict helpers: d.get(k, 0) and d[k] = d.get(k, 0) + v.                   *)
(***************************************************************************)
Get(m, k) == IF k \in DOMAIN m THEN m[k] ELSE 0

AddTo(m, k, v) == [x \in DOMAIN m \cup {k} |-> Get(m, x) + (IF x = k THEN v ELSE 0)]

RECURSIVE AddAll(_, _, _)
AddAll(m, keys, f) ==
    IF keys = {} THEN m
    ELSE LET k == CHOOSE x \in keys : TRUE
         IN AddAll(AddTo(m, k, f[k]), keys \ {k}, f)

(***************************************************************************)
(* Expense(...) as built from a stored document at read time. The keyword  *)
(* split_amounts= is the field name, not its alias "splits", and the model *)
(* does not validate by name, so the stored splits never reach the model.  *)
(* The model's validators reject amount <= 0, an empty participants list   *)
(* and a split_method outside the Literal.                                 *)
(***************************************************************************)
ExpenseModelValid(doc) ==
    /\ doc.amount > 0
    /\ Len(doc.participants) > 0
    /\ doc.split_method \in {"equal", "custom"}

ExpenseModel(doc) ==
    [amount |-> doc.amount,
     participants |-> doc.participants,
     paid_by |-> doc.paid_by,
     split_method |-> doc.split_method,
     split_amounts |-> NoSplits,
     group_id |-> doc.group_id]

(***************************************************************************)
(* The signed amount one expense adds to net_balances[user] (and to the    *)
(* group balance) in the view of email.                                    *)
(***************************************************************************)
ExpenseContribution(doc, email) ==
    LET splits == calculate_split(ExpenseModel(doc))
        user_balances == calculate_user_balance(splits, doc.paid_by, email)
    IN [user \in DOMAIN user_balances \ {email} |->
            IF doc.paid_by = email THEN user_balances[user] ELSE -user_balances[user]]

GroupName(gid) == IF GroupExists(gid) THEN groups[gid.n].name ELSE "Unknown Group"

EmptyView == [error |-> FALSE, expenses |-> <<>>, net_balances |-> EmptyMap,
              group_balances |-> EmptyMap]

(***************************************************************************)
(* One iteration of the expense loop of get_user_expenses_by_email.        *)
(* ObjectId() on a malformed id raises bson.errors.InvalidId, which is not *)
(* a ValueError: no handler of the function catches it and the request     *)
(* fails.                                                                  *)
(***************************************************************************)
ProcessExpense(acc, id, doc, email) ==
    IF acc.error THEN acc
    ELSE IF ~FromIsoFormatOk(doc.created_at) THEN acc
    ELSE IF ~ExpenseModelValid(doc) THEN acc
    ELSE IF doc.group_id.kind = "malformed" THEN [acc EXCEPT !.error = TRUE]
    ELSE
      LET splits == calculate_split(ExpenseModel(doc))
          contrib == ExpenseContribution(doc, email)
          grouped == doc.group_id.kind = "oid"
          group_key == <<GroupName(doc.group_id), doc.group_id.n>>
          total == MapSum(contrib)
      IN [error |-> FALSE,
          expenses |-> Append(acc.expenses,
                         [id |-> id, amount |-> doc.amount, paid_by |-> doc.paid_by,
                          participants |-> doc.participants, splits |-> splits,
                          group_id |-> doc.group_id,
                          group_name |-> IF grouped THEN GroupName(doc.group_id)
                                                    ELSE "Single"]),
          net_balances |-> AddAll(acc.net_balances, DOMAIN contrib, contrib),
          group_balances |->
              IF grouped /\ DOMAIN contrib # {}
              THEN AddTo(acc.group_balances, group_key, total)
              ELSE acc.group_balances]

(***************************************************************************)
(* One iteration of the payment loop.                                      *)
(***************************************************************************)
ProcessPaymentUnsignedGroup(acc, doc, email) ==
    IF acc.error THEN acc
    ELSE IF ~FromIsoFormatOk(doc.created_at) THEN acc
    ELSE IF doc.group_id.kind = "malformed" THEN [acc EXCEPT !.error = TRUE]
    ELSE
      LET grouped == doc.group_id.kind = "oid"
          group_key == <<GroupName(doc.group_id), doc.group_id.n>>
          signed == IF doc.payer = email THEN -doc.amount ELSE doc.amount
          other == IF doc.payer = email THEN doc.payee ELSE doc.payer
      IN [acc EXCEPT
            !.group_balances = IF grouped THEN AddTo(@, group_key, doc.amount) ELSE @,
            !.net_balances = AddTo(@, other, signed)]

ProcessPayment(acc, doc, email) ==
    IF acc.error THEN acc
    ELSE IF ~FromIsoFormatOk(doc.created_at) THEN acc
    ELSE IF doc.group_id.kind = "malformed" THEN [acc EXCEPT !.error = TRUE]
    ELSE
      LET grouped == doc.group_id.kind = "oid"
          group_key == <<GroupName(doc.group_id), doc.group_id.n>>
          signed == IF doc.payer = email THEN -doc.amount ELSE doc.amount
          other == IF doc.payer = email THEN doc.payee ELSE doc.payer
      IN [acc EXCEPT
            !.group_balances = IF grouped THEN AddTo(@, group_key, signed) ELSE @,
            !.net_balances = AddTo(@, other, signed)]

RECURSIVE FoldExpenses(_, _, _)
FoldExpenses(acc, i, email) ==
    IF i > Len(expenses) THEN acc
    ELSE FoldExpenses(
           IF email \in Range(expenses[i].participants)
           THEN ProcessExpense(acc, i, expenses[i], email) ELSE acc,
           i + 1, email)

RECURSIVE FoldPayments(_, _, _)
FoldPayments(acc, i, email) ==
    IF i > Len(payments) THEN acc
    ELSE FoldPayments(
           IF email \in {payments[i].payer, payments[i].payee}
           THEN ProcessPayment(acc, payments[i], email) ELSE acc,
           i + 1, email)

(***************************************************************************)
(* get_user_expenses_by_email(email). The final round(x, 2) of every       *)
(* aggregate leaves a whole number of cents as it is.                      *)
(***************************************************************************)
get_user_expenses_by_email(email) ==
    FoldPayments(FoldExpenses(EmptyView, 1, email), 1, email)

NetBalance(viewer, other) == Get(get_user_expenses_by_email(viewer).net_balances, other)

(***************************************************************************)
(* Responses: the HTTP status and the detail string of the HTTPException   *)
(* (or the exception class when nothing turns it into an HTTPException).   *)
(***************************************************************************)
Resp(status, detail) == [status |-> status, detail |-> detail]

Ok == Resp(200, "ok")
InvalidUser == Resp(401, "Invalid user")
Unprocessable == Resp(422, "request body validation")
InvalidId == Resp(500, "bson.errors.InvalidId")

(***************************************************************************)
(* validate_users(participants, paid_by): the emails with no user record.  *)
(***************************************************************************)
validate_usersInverted(participants, paid_by) ==
    {email \in Range(participants) \cup {paid_by} : email \in Registered}

validate_users(participants, paid_by) ==
    {email \in Range(participants) \cup {paid_by} : email \notin Registered}

(***************************************************************************)
(* validate_group_members(group_id, participants, paid_by): the response   *)
(* the call ends the request with, Ok when it returns the group.           *)
(* ObjectId() raises InvalidId on a malformed id; InvalidId is not a       *)
(* ValueError, so no except clause turns it into a 400.                    *)
(***************************************************************************)
validate_group_membersPayerOnly(group_id, participants, paid_by) ==
    IF group_id.kind # "oid" THEN InvalidId
    ELSE IF ~GroupExists(group_id) THEN Resp(400, "Group not found")
    ELSE IF paid_by \notin groups[group_id.n].members
    THEN Resp(400, "All participants and paid_by must be group members")
    ELSE Ok

validate_group_members(group_id, participants, paid_by) ==
    IF group_id.kind # "oid" THEN InvalidId
    ELSE IF ~GroupExists(group_id) THEN Resp(400, "Group not found")
    ELSE IF ~(Range(participants) \cup {paid_by} \subseteq groups[group_id.n].members)
    THEN Resp(400, "All participants and paid_by must be group members")
    ELSE Ok

(***************************************************************************)
(* The validators of the request models (models.py): a body they refuse is *)
(* answered 422 before the handler runs.                                   *)
(***************************************************************************)
ExpenseBodyValidZero(expense) ==
    /\ expense.amount >= 0
    /\ Len(expense.participants) > 0

ExpenseBodyValid(expense) ==
    /\ expense.amount > 0
    /\ Len(expense.participants) > 0

PaymentBodyValidAny(payment) == payment.payer \in Emails

PaymentBodyValid(payment) == payment.payer # payment.payee

GroupBodyValid(group) == group.members # {}

(***************************************************************************)
(* The checks add_expense and add_group_expense make on one expense before *)
(* they look at its group.                                                 *)
(***************************************************************************)
CustomSplitCheckSubset(expense) ==
    IF expense.split_method = "custom"
    THEN IF \/ expense.split_amounts.none
            \/ ~(Range(expense.participants) \subseteq DOMAIN expense.split_amounts.map)
         THEN Resp(400, "split_amounts must include all participants for custom split")
         ELSE IF MapSum(expense.split_amounts.map) # expense.amount
              THEN Resp(400, "split_amounts must sum to total amount")
              ELSE Ok
    ELSE Ok

CustomSplitCheck(expense) ==
    IF expense.split_method = "custom"
    THEN IF \/ expense.split_amounts.none
            \/ DOMAIN expense.split_amounts.map = {}
            \/ DOMAIN expense.split_amounts.map # Range(expense.participants)
         THEN Resp(400, "split_amounts must include all participants for custom split")
         ELSE IF MapSum(expense.split_amounts.map) # expense.amount
              THEN Resp(400, "split_amounts must sum to total amount")
              ELSE Ok
    ELSE Ok

ExpenseChecks(expense, caller) ==
    IF caller \notin Range(expense.participants)
    THEN Resp(403, "Current user must be a participant")
    ELSE IF expense.paid_by \notin Range(expense.participants)
    THEN Resp(400, "paid_by must be one of participants")
    ELSE CustomSplitCheck(expense)

(***************************************************************************)
(* The document add_expense and add_group_expense insert.                  *)
(***************************************************************************)
ExpenseDoc(expense, group_id) ==
    [amount |-> expense.amount,
     participants |-> expense.participants,
     paid_by |-> expense.paid_by,
     split_method |-> expense.split_method,
     splits |-> SomeSplits(calculate_split(expense)),
     created_at |-> "datetime",
     group_id |-> group_id,
     unregistered_participants |-> validate_users(expense.participants, expense.paid_by)]

(***************************************************************************)
(* POST /expense: the response, and the expenses collection afterwards.    *)
(***************************************************************************)
add_expense_response(expense, caller) ==
    IF caller \notin Registered THEN InvalidUser
    ELSE IF ~ExpenseBodyValid(expense) THEN Unprocessable
    ELSE IF ExpenseChecks(expense, caller) # Ok THEN ExpenseChecks(expense, caller)
    ELSE IF expense.group_id.kind = "none" THEN Ok
    ELSE IF expense.group_id.kind = "malformed" THEN InvalidId
    ELSE validate_group_members(expense.group_id, expense.participants, expense.paid_by)

add_expense_stored(expense, caller) ==
    IF add_expense_response(expense, caller) = Ok
    THEN Append(expenses, ExpenseDoc(expense, expense.group_id))
    ELSE expenses

(* balances_for_current_user of the response *)
add_expense_balances(expense, caller) ==
    calculate_user_balance(calculate_split(expense), expense.paid_by, caller)

add_expense(expense, caller) ==
    /\ expenses' = add_expense_stored(expense, caller)
    /\ last' = [op |-> "add_expense", resp |-> add_expense_response(expense, caller)]
    /\ UNCHANGED <<users, groups, payments, split_in, split_out, signups>>

(***************************************************************************)
(* POST /group-expense: the sub-expenses are checked and inserted one at a *)
(* time; BatchPrefix is the number inserted before the first that fails.   *)
(***************************************************************************)
SubExpenseResponse(expense, group_id, caller) ==
    IF caller \notin Range(expense.participants)
    THEN Resp(403, "Current user must be a participant in all expenses")
    ELSE IF expense.paid_by \notin Range(expense.participants)
    THEN Resp(400, "paid_by must be one of participants")
    ELSE IF CustomSplitCheck(expense) # Ok THEN CustomSplitCheck(expense)
    ELSE validate_group_members(group_id, expense.participants, expense.paid_by)

BatchPrefixRollback(subs, i, group_id, caller) ==
    IF \A k \in 1..Len(subs) : SubExpenseResponse(subs[k], group_id, caller) = Ok
    THEN Len(subs) ELSE 0

RECURSIVE BatchPrefix(_, _, _, _)
BatchPrefix(subs, i, group_id, caller) ==
    IF i > Len(subs) THEN Len(subs)
    ELSE IF SubExpenseResponse(subs[i], group_id, caller) # Ok THEN i - 1
    ELSE BatchPrefix(subs, i + 1, group_id, caller)

GroupExpenseBodyValid(group_expense) ==
    /\ Len(group_expense.expenses) > 0
    /\ \A i \in 1..Len(group_expense.expenses) : ExpenseBodyValid(group_expense.expenses[i])

add_group_expense_inserted(group_expense, caller) ==
    IF caller \notin Registered THEN 0
    ELSE IF ~GroupExpenseBodyValid(group_expense) THEN 0
    ELSE IF validate_group_members(group_expense.group_id, <<>>, caller) # Ok THEN 0
    ELSE BatchPrefix(group_expense.expenses, 1, group_expense.group_id, caller)

add_group_expense_response(group_expense, caller) ==
    IF caller \notin Registered THEN InvalidUser
    ELSE IF ~GroupExpenseBodyValid(group_expense) THEN Unprocessable
    ELSE IF validate_group_members(group_expense.group_id, <<>>, caller) # Ok
    THEN validate_group_members(group_expense.group_id, <<>>, caller)
    ELSE LET k == BatchPrefix(group_expense.expenses, 1, group_expense.group_id, caller)
         IN IF k = Len(group_expense.expenses) THEN Ok
            ELSE SubExpenseResponse(group_expense.expenses[k + 1],
                                    group_expense.group_id, caller)

add_group_expense_stored(group_expense, caller) ==
    expenses \o
      [i \in 1..add_group_expense_inserted(group_expense, caller) |->
          ExpenseDoc(group_expense.expenses[i], group_expense.group_id)]

add_group_expense(group_expense, caller) ==
    /\ expenses' = add_group_expense_stored(group_expense, caller)
    /\ last' = [op |-> "add_group_expense",
                resp |-> add_group_expense_response(group_expense, caller)]
    /\ UNCHANGED <<users, groups, payments, split_in, split_out, signups>>

(***************************************************************************)
(* POST /payment. The document is inserted before the response is built;   *)
(* the response model then wants created_at to be a datetime.              *)
(***************************************************************************)
PaymentDoc(payment) ==
    [amount |-> payment.amount,
     payer |-> payment.payer,
     payee |-> payment.payee,
     created_at |-> IF payment.created_at = "empty" THEN "datetime"
                    ELSE payment.created_at,
     group_id |-> payment.group_id,
     unregistered |-> validate_users(<<payment.payer, payment.payee>>, payment.payer)]

add_payment_checks(payment, caller) ==
    IF caller \notin Registered THEN InvalidUser
    ELSE IF ~PaymentBodyValid(payment) THEN Unprocessable
    ELSE IF caller \notin {payment.payer, payment.payee}
    THEN Resp(403, "Current user must be either payer or payee")
    ELSE IF payment.group_id.kind = "none" THEN Ok
    ELSE IF payment.group_id.kind = "malformed" THEN InvalidId
    ELSE validate_group_members(payment.group_id,
                                <<payment.payer, payment.payee>>, payment.payer)

add_payment_stored(payment, caller) ==
    IF add_payment_checks(payment, caller) = Ok
    THEN Append(payments, PaymentDoc(payment))
    ELSE payments

add_payment_response(payment, caller) ==
    IF add_payment_checks(payment, caller) # Ok THEN add_payment_checks(payment, caller)
    ELSE IF ~ResponseDatetimeOk(PaymentDoc(payment).created_at)
    THEN Resp(500, "ResponseValidationError")
    ELSE Ok

add_payment(payment, caller) ==
    /\ payments' = add_payment_stored(payment, caller)
    /\ last' = [op |-> "add_payment", resp |-> add_payment_response(payment, caller)]
    /\ UNCHANGED <<users, groups, expenses, split_in, split_out, signups>>

(***************************************************************************)
(* POST /signup. The handler looks the email up (find_one), inserts the    *)
(* record (insert_one) and returns the view of the new user as             *)
(* previous_expenses; when the aggregation raises InvalidId the record     *)
(* stays inserted and the request fails. signup(email) is a request served *)
(* with no other signup in between; signup_find and signup_insert are the  *)
(* two database calls of a request served by process w.                    *)
(***************************************************************************)
EmailTaken == Resp(400, "Email already registered")

SignupResponseEmpty(email) ==
    [op |-> "signup", resp |-> Ok, email |-> email, previous_expenses |-> EmptyView]

SignupResponse(email) ==
    IF get_user_expenses_by_email(email).error
    THEN [op |-> "signup", resp |-> InvalidId, email |-> email]
    ELSE [op |-> "signup", resp |-> Ok, email |-> email,
          previous_expenses |-> get_user_expenses_by_email(email)]

signup(email) ==
    /\ users' = IF email \in Registered THEN users ELSE [users EXCEPT ![email] = @ + 1]
    /\ last' = IF email \in Registered THEN [op |-> "signup", resp |-> EmailTaken]
               ELSE SignupResponse(email)
    /\ UNCHANGED <<groups, expenses, payments, split_in, split_out, signups>>

signup_find(w, email) ==
    /\ signups[w].pc = "idle"
    /\ IF email \in Registered
       THEN /\ last' = [op |-> "signup", resp |-> EmailTaken]
            /\ UNCHANGED signups
       ELSE /\ signups' = [signups EXCEPT ![w] = [pc |-> "insert", email |-> email]]
            /\ UNCHANGED last
    /\ UNCHANGED <<users, groups, expenses, payments, split_in, split_out>>

signup_insert(w) ==
    /\ signups[w].pc = "insert"
    /\ users' = [users EXCEPT ![signups[w].email] = @ + 1]
    /\ signups' = [signups EXCEPT ![w] = [pc |-> "idle", email |-> ""]]
    /\ last' = SignupResponse(signups[w].email)
    /\ UNCHANGED <<groups, expenses, payments, split_in, split_out>>

(***************************************************************************)
(* POST /group. The duplicate check looks for the caller's email as the    *)
(* creator; the document stores the created_by of the body.                *)
(***************************************************************************)
create_group_response(group, caller) ==
    IF caller \notin Registered THEN InvalidUser
    ELSE IF ~GroupBodyValid(group) THEN Unprocessable
    ELSE IF \E i \in 1..Len(groups) :
               groups[i].name = group.name /\ groups[i].created_by = caller
    THEN Resp(400, "Group name already exists for this user")
    ELSE Ok

GroupDoc(group) ==
    [name |-> group.name, members |-> group.members, created_by |-> group.created_by,
     unregistered_members |->
         {e \in group.members \cup {group.created_by} : e \notin Registered}]

create_group(group, caller) ==
    /\ groups' = IF create_group_response(group, caller) = Ok
                 THEN Append(groups, GroupDoc(group))
                 ELSE groups
    /\ last' = [op |-> "create_group", resp |-> create_group_response(group, caller)]
    /\ UNCHANGED <<users, expenses, payments, split_in, split_out, signups>>

(***************************************************************************)
(* POST /clear-db: drops the four collections.                             *)
(***************************************************************************)
clear_database(caller) ==
    /\ users' = IF caller \in Registered THEN NoUsers ELSE users
    /\ groups' = IF caller \in Registered THEN <<>> ELSE groups
    /\ expenses' = IF caller \in Registered THEN <<>> ELSE expenses
    /\ payments' = IF caller \in Registered THEN <<>> ELSE payments
    /\ last' = [op |-> "clear_database",
                resp |-> IF caller \in Registered THEN Ok ELSE InvalidUser]
    /\ UNCHANGED <<split_in, split_out, signups>>

(***************************************************************************)
(* Request bodies the model submits.                                       *)
(***************************************************************************)
Callers == Emails

ParticipantLists ==
    {<<>>, <<"a">>, <<"a", "a">>, <<"a", "b">>, <<"b", "c">>, <<"a", "b", "c">>}

SplitMaps ==
    UNION {[Range(ps) -> 1..MaxAmount] : ps \in ParticipantLists \ {<<>>}}

OptionalSplits == {NoSplits, SomeSplits(EmptyMap)} \cup {SomeSplits(m) : m \in SplitMaps}

GroupIds == {GidNone, GidMissing, GidMalformed} \cup {Gid(n) : n \in 1..MaxGroups}

Expense(amount, participants, paid_by, split_method, split_amounts, group_id) ==
    [amount |-> amount, participants |-> participants, paid_by |-> paid_by,
     split_method |-> split_method, split_amounts |-> split_amounts,
     group_id |-> group_id]

EqualExpenses(amounts, gids) ==
    {Expense(am, ps, pb, "equal", NoSplits, g) :
        am \in amounts, ps \in ParticipantLists, pb \in Emails, g \in gids}

CustomExpenses(amounts, gids) ==
    {Expense(am, ps, ps[1], "custom", sp, g) :
        am \in amounts, ps \in ParticipantLists \ {<<>>},
        sp \in OptionalSplits, g \in gids}

ExpenseRequests ==
    EqualExpenses(0..MaxAmount, GroupIds) \cup CustomExpenses(1..MaxAmount, {GidNone})

SubExpenseRequests ==
    {e \in ExpenseRequests :
        /\ e.group_id = GidNone
        /\ e.amount \in {0, MaxAmount}
        /\ e.participants \in {<<"a", "b">>, <<"b", "c">>}
        /\ e.paid_by \in {"a", "b"}
        /\ e.split_amounts.none \/ DOMAIN e.split_amounts.map = {"a", "b"}}

(* Batches of one sub-expense, and batches of two drawn from a valid equal  *)
(* split, a valid and an invalid custom split, an expense with a            *)
(* participant outside the group, and one with amount 0.                    *)
PairSubRequests ==
    {Expense(MaxAmount, <<"a", "b">>, "a", "equal", NoSplits, GidNone),
     Expense(MaxAmount, <<"a", "b">>, "a", "custom",
             SomeSplits([p \in {"a", "b"} |-> 1]), GidNone),
     Expense(MaxAmount, <<"a", "b">>, "a", "custom",
             SomeSplits([p \in {"a", "b"} |-> MaxAmount]), GidNone),
     Expense(MaxAmount, <<"b", "c">>, "b", "equal", NoSplits, GidNone),
     Expense(0, <<"a", "b">>, "a", "equal", NoSplits, GidNone)}

Batches == [1..1 -> SubExpenseRequests] \cup [1..2 -> PairSubRequests]

GroupExpenseRequests ==
    {[group_id |-> g, expenses |-> es] : g \in GroupIds \ {GidNone}, es \in Batches}

PaymentRequests ==
    [amount : -1..MaxAmount, payer : Emails, payee : Emails,
     created_at : {"empty", "iso", "epoch", "bad"}, group_id : GroupIds]

GroupRequests == [name : {"trip"}, members : {{}, {"a", "b"}}, created_by : Emails]

(***************************************************************************)
(* Initial state: the four collections are empty.                          *)
(***************************************************************************)
NoRequest == [op |-> "none", resp |-> Resp(0, "")]

NoSplitInput == Expense(1, <<"a">>, "a", "equal", NoSplits, GidNone)

Init ==
    /\ users = NoUsers
    /\ signups = NoSignups
    /\ groups = <<>>
    /\ expenses = <<>>
    /\ payments = <<>>
    /\ last = NoRequest
    /\ split_in = NoSplitInput
    /\ split_out = NoSplits

Signup == \E email \in Emails : signup(email)

CreateGroup ==
    /\ Len(groups) < MaxGroups
    /\ \E caller \in Callers, group \in GroupRequests : create_group(group, caller)

AddExpense ==
    /\ Len(expenses) < MaxStored
    /\ \E caller \in Callers, expense \in ExpenseRequests : add_expense(expense, caller)

AddGroupExpense ==
    /\ Len(expenses) < MaxStored
    /\ \E caller \in Callers, ge \in GroupExpenseRequests : add_group_expense(ge, caller)

ClearDatabase == \E caller \in Callers : clear_database(caller)

Next ==
    \/ Signup
    \/ CreateGroup
    \/ AddExpense
    \/ AddGroupExpense
    \/ ClearDatabase

Spec == Init /\ [][Next]_vars

(***************************************************************************)
(* The split calculator on its own: Init draws an Expense model, the one   *)
(* action applies calculate_split to it.                                   *)
(***************************************************************************)
SplitParticipantLists == SeqsUpTo(SplitEmails, 1, MaxSplitParts)

SplitCustomLists == {ps \in SplitParticipantLists : Len(ps) <= 2}

(* The Expense models the program hands to calculate_split: POST /expense   *)
(* and POST /group-expense call it after their checks, so with method equal *)
(* or with a custom mapping whose keys are the participants and whose       *)
(* values sum to the amount; the read side calls it with no split_amounts   *)
(* and method equal or custom.                                              *)
SplitInputs ==
    {Expense(am, ps, ps[1], "equal", NoSplits, GidNone) :
        am \in 1..MaxSplitAmount, ps \in SplitParticipantLists}
    \cup
    {Expense(am, ps, ps[1], "custom", NoSplits, GidNone) :
        am \in 1..MaxSplitAmount, ps \in SplitCustomLists}
    \cup
    {e \in {Expense(am, ps, ps[1], "custom", sp, GidNone) :
               am \in 1..MaxSplitAmount, ps \in SplitCustomLists,
               sp \in OptionalSplits \ {NoSplits}} :
        /\ DOMAIN e.split_amounts.map = Range(e.participants)
        /\ MapSum(e.split_amounts.map) = e.amount}

InitSplit ==
    /\ users = NoUsers
    /\ signups = NoSignups
    /\ groups = <<>>
    /\ expenses = <<>>
    /\ payments = <<>>
    /\ last = NoRequest
    /\ split_in \in SplitInputs
    /\ split_out = NoSplits

CalculateSplit ==
    /\ split_out.none
    /\ split_out' = SomeSplits(calculate_split(split_in))
    /\ UNCHANGED <<users, groups, expenses, payments, last, split_in, signups>>

NextSplit == CalculateSplit

SpecSplit == InitSplit /\ [][NextSplit]_vars

(***************************************************************************)
(* The ledger: ungrouped expenses and payments of registered users, and    *)
(* the views get_user_expenses_by_email builds from them.                  *)
(***************************************************************************)
(* a custom split that differs from the equal one: one cent for a, the     *)
(* rest for b                                                              *)
UnevenCustomExpense ==
    Expense(MaxAmount + 1, <<"a", "b">>, "a", "custom",
            SomeSplits([p \in {"a", "b"} |-> IF p = "a" THEN 1 ELSE MaxAmount]), GidNone)

LedgerExpenseRequests ==
    {e \in ExpenseRequests :
        /\ e.group_id = GidNone
        /\ e.amount > 0
        /\ e.participants \in {<<"a", "b">>, <<"a", "b", "c">>}
        /\ e.paid_by \in {"a", "b"}
        /\ e.split_amounts.none \/
              (e.amount = MaxAmount /\ MapSum(e.split_amounts.map) = MaxAmount)}
    \cup {UnevenCustomExpense}

LedgerPaymentRequests ==
    {p \in PaymentRequests :
        /\ p.group_id = GidNone
        /\ p.amount > 0
        /\ {p.payer, p.payee} \subseteq {"a", "b"}
        /\ p.created_at \in {"empty", "iso", "epoch"}}

AddLedgerExpense ==
    /\ Len(expenses) < MaxExpenses
    /\ \E caller \in Callers, expense \in LedgerExpenseRequests :
          add_expense(expense, caller)

AddLedgerPayment ==
    /\ Len(payments) < MaxPayments
    /\ \E caller \in Callers, payment \in LedgerPaymentRequests :
          add_payment(payment, caller)

NextLedger ==
    \/ Signup
    \/ AddLedgerExpense
    \/ AddLedgerPayment

SpecLedger == Init /\ [][NextLedger]_vars

(***************************************************************************)
(* Payments: users, groups and POST /payment with every kind of body.      *)
(***************************************************************************)
AddPayment ==
    /\ Len(payments) < MaxPayments
    /\ \E caller \in Callers, payment \in PaymentRequests : add_payment(payment, caller)

NextPayment ==
    \/ Signup
    \/ CreateGroup
    \/ AddPayment
    \/ ClearDatabase

SpecPayment == Init /\ [][NextPayment]_vars

(***************************************************************************)
(* Signups served side by side: each step is one database call of one      *)
(* process.                                                                *)
(***************************************************************************)
SignupFind == \E w \in Workers, email \in Emails : signup_find(w, email)

SignupInsert == \E w \in Workers : signup_insert(w)

NextSignup ==
    \/ SignupFind
    \/ SignupInsert
    \/ ClearDatabase

SpecSignup == Init /\ [][NextSignup]_vars

(***************************************************************************)
(* Groups: signups and POST /group, with room for two groups.              *)
(***************************************************************************)
CreateGroups ==
    /\ Len(groups) < MaxGroupDocs
    /\ \E caller \in Callers, group \in GroupRequests : create_group(group, caller)

NextGroup ==
    \/ Signup
    \/ CreateGroups
    \/ ClearDatabase

SpecGroup == Init /\ [][NextGroup]_vars

(***************************************************************************)
(* POST /test-expense: stores the dict it is given with created_by set to  *)
(* the caller; equal shares replace the splits unless the method is custom *)
(* and the keys of the splits are the participants (their sum is not       *)
(* looked at).                                                             *)
(***************************************************************************)
TestSplitsKeptSuperset(expense) ==
    /\ expense.split_method = "custom"
    /\ ~expense.splits.none
    /\ DOMAIN expense.splits.map # {}
    /\ Range(expense.participants) \subseteq DOMAIN expense.splits.map

TestSplitsKept(expense) ==
    /\ expense.split_method = "custom"
    /\ ~expense.splits.none
    /\ DOMAIN expense.splits.map # {}
    /\ DOMAIN expense.splits.map = Range(expense.participants)

TestExpenseDoc(expense, caller) ==
    [amount |-> expense.amount,
     participants |-> expense.participants,
     paid_by |-> expense.paid_by,
     split_method |-> IF expense.split_method = "custom" /\ ~TestSplitsKept(expense)
                      THEN "equal" ELSE expense.split_method,
     splits |-> IF TestSplitsKept(expense) THEN expense.splits
                ELSE SomeSplits(EqualSplit(expense.amount, expense.participants)),
     created_at |-> expense.created_at,
     group_id |-> expense.group_id,
     created_by |-> caller]

add_test_expense_response(expense, caller) ==
    IF caller \notin Registered THEN InvalidUser
    ELSE IF Len(expense.participants) = 0 \/ expense.amount <= 0
    THEN Resp(400, "Invalid test expense data")
    ELSE Ok

add_test_expense(expense, caller) ==
    /\ expenses' = IF add_test_expense_response(expense, caller) = Ok
                   THEN Append(expenses, TestExpenseDoc(expense, caller))
                   ELSE expenses
    /\ last' = [op |-> "add_test_expense", resp |-> add_test_expense_response(expense, caller)]
    /\ UNCHANGED <<users, groups, payments, split_in, split_out, signups>>

(***************************************************************************)
(* POST /fix-expenses: every stored expense of method custom whose splits  *)
(* are missing or empty, have keys other than the participants or do not   *)
(* sum to the amount gets equal splits and the method equal.               *)
(***************************************************************************)
NeedsFixKeysOnly(doc) ==
    /\ doc.split_method = "custom"
    /\ \/ doc.splits.none
       \/ DOMAIN doc.splits.map # Range(doc.participants)

NeedsFix(doc) ==
    /\ doc.split_method = "custom"
    /\ \/ doc.splits.none
       \/ DOMAIN doc.splits.map = {}
       \/ DOMAIN doc.splits.map # Range(doc.participants)
       \/ MapSum(doc.splits.map) # doc.amount

FixDocMarkRepaired(doc) ==
    IF NeedsFix(doc)
    THEN [doc EXCEPT !.splits = SomeSplits(EqualSplit(doc.amount, doc.participants)),
                     !.split_method = "repaired"]
    ELSE doc

FixDocKeepMethod(doc) ==
    IF NeedsFix(doc)
    THEN [doc EXCEPT !.splits = SomeSplits(EqualSplit(doc.amount, doc.participants))]
    ELSE doc

FixDoc(doc) ==
    IF NeedsFix(doc)
    THEN [doc EXCEPT !.splits = SomeSplits(EqualSplit(doc.amount, doc.participants)),
                     !.split_method = "equal"]
    ELSE doc

FixedStore(exps) == [i \in 1..Len(exps) |-> FixDoc(exps[i])]

FixedCount(exps) == Cardinality({i \in 1..Len(exps) : NeedsFix(exps[i])})

fix_expenses(caller) ==
    /\ expenses' = IF caller \in Registered THEN FixedStore(expenses) ELSE expenses
    /\ last' = IF caller \in Registered
               THEN [op |-> "fix_expenses", resp |-> Ok, fixed |-> FixedCount(expenses)]
               ELSE [op |-> "fix_expenses", resp |-> InvalidUser]
    /\ UNCHANGED <<users, groups, payments, split_in, split_out, signups>>

(***************************************************************************)
(* GET /user/expenses and GET /user/created-expenses. The second runs the  *)
(* expense loop of the first over the documents whose created_by is the    *)
(* caller; only POST /test-expense writes a created_by.                    *)
(***************************************************************************)
CreatedBy(doc, email) == "created_by" \in DOMAIN doc /\ doc.created_by = email

RECURSIVE FoldCreated(_, _, _)
FoldCreated(acc, i, email) ==
    IF i > Len(expenses) THEN acc
    ELSE FoldCreated(
           IF CreatedBy(expenses[i], email)
           THEN ProcessExpense(acc, i, expenses[i], email) ELSE acc,
           i + 1, email)

created_expenses(email) == FoldCreated(EmptyView, 1, email)

ViewResponse(op, caller, view) ==
    IF caller \notin Registered THEN [op |-> op, resp |-> InvalidUser, email |-> caller]
    ELSE IF view.error THEN [op |-> op, resp |-> InvalidId, email |-> caller]
    ELSE [op |-> op, resp |-> Ok, email |-> caller, view |-> view]

get_user_expensesRepairing(caller) ==
    /\ last' = ViewResponse("get_user_expenses", caller, get_user_expenses_by_email(caller))
    /\ expenses' = FixedStore(expenses)
    /\ UNCHANGED <<users, groups, payments, split_in, split_out, signups>>

get_user_expenses(caller) ==
    /\ last' = ViewResponse("get_user_expenses", caller, get_user_expenses_by_email(caller))
    /\ UNCHANGED <<users, groups, expenses, payments, split_in, split_out, signups>>

get_user_created_expenses(caller) ==
    /\ last' = ViewResponse("get_user_created_expenses", caller, created_expenses(caller))
    /\ UNCHANGED <<users, groups, expenses, payments, split_in, split_out, signups>>

(***************************************************************************)
(* Reports and maintenance: expenses stored by POST /expense and by        *)
(* POST /test-expense, the two views, and POST /fix-expenses.              *)
(***************************************************************************)
ReportExpenseRequests ==
    {e \in ExpenseRequests :
        /\ e.group_id = GidNone
        /\ e.amount = MaxAmount
        /\ e.participants \in {<<"a", "b">>, <<"a", "b", "c">>}
        /\ e.paid_by = "a"
        /\ e.split_amounts.none \/ MapSum(e.split_amounts.map) = MaxAmount}

TestExpenseRequests ==
    [amount : {0, MaxAmount},
     participants : {<<>>, <<"a", "b">>, <<"a", "b", "c">>},
     paid_by : {"a"},
     split_method : {"equal", "custom"},
     splits : {NoSplits, SomeSplits([p \in {"a", "b"} |-> 1]),
               SomeSplits([p \in {"a", "b", "c"} |-> 1])},
     created_at : {"iso"},
     group_id : {GidNone}]

AddReportExpense ==
    /\ Len(expenses) < MaxExpenses
    /\ \E caller \in Callers, expense \in ReportExpenseRequests :
          add_expense(expense, caller)

AddTestExpense ==
    /\ Len(expenses) < MaxExpenses
    /\ \E caller \in Callers, expense \in TestExpenseRequests :
          add_test_expense(expense, caller)

FixExpenses == \E caller \in Callers : fix_expenses(caller)

GetUserExpenses == \E caller \in Callers : get_user_expenses(caller)

GetUserCreatedExpenses == \E caller \in Callers : get_user_created_expenses(caller)

NextReports ==
    \/ Signup
    \/ AddReportExpense
    \/ AddTestExpense
    \/ AddLedgerPayment
    \/ FixExpenses
    \/ GetUserExpenses
    \/ GetUserCreatedExpenses

SpecReports == Init /\ [][NextReports]_vars

(***************************************************************************)
(* Stored records the write-side checks of POST /expense would refuse:     *)
(* POST /test-expense stores the dict it is given, so a custom split that  *)
(* does not sum to the amount, a split_method outside the Literal, a       *)
(* created_at string that is no ISO timestamp and a group_id that is no    *)
(* ObjectId, or the ObjectId of no group, all reach the collection.        *)
(***************************************************************************)
TestDict(amount, participants, paid_by, split_method, splits, created_at, group_id) ==
    [amount |-> amount, participants |-> participants, paid_by |-> paid_by,
     split_method |-> split_method, splits |-> splits,
     created_at |-> created_at, group_id |-> group_id]

OneTwo == SomeSplits([p \in {"a", "b"} |-> IF p = "a" THEN 1 ELSE MaxAmount])

StoredExpenseDicts ==
    {TestDict(MaxAmount, <<"a", "b">>, "a", "equal", NoSplits, "iso", GidNone),
     TestDict(MaxAmount, <<"a", "b", "c">>, "b", "equal", NoSplits, "iso", GidNone),
     (* custom, the splits sum to MaxAmount + 1: kept as they are *)
     TestDict(MaxAmount, <<"a", "b">>, "a", "custom", OneTwo, "iso", GidNone),
     TestDict(MaxAmount, <<"a", "b">>, "b", "custom", OneTwo, "iso", GidNone),
     (* custom, the splits sum to the amount *)
     TestDict(MaxAmount + 1, <<"a", "b">>, "a", "custom", OneTwo, "iso", GidNone),
     (* custom, the keys are the participants and an email outside them *)
     TestDict(MaxAmount + 1, <<"a", "b">>, "a", "custom",
              SomeSplits([p \in {"a", "b", "c"} |-> 1]), "iso", GidNone),
     (* custom, keys other than the participants, and no splits at all *)
     TestDict(MaxAmount, <<"a", "b", "c">>, "a", "custom", OneTwo, "iso", GidNone),
     TestDict(MaxAmount, <<"a", "b">>, "a", "custom", NoSplits, "iso", GidNone),
     (* a method outside the Literal *)
     TestDict(MaxAmount, <<"a", "b">>, "a", "percent", NoSplits, "iso", GidNone),
     (* a created_at that is no ISO timestamp *)
     TestDict(MaxAmount, <<"a", "b">>, "a", "equal", NoSplits, "bad", GidNone),
     (* a group_id that is no ObjectId, and the ObjectId of no group *)
     TestDict(MaxAmount, <<"a", "b">>, "a", "equal", NoSplits, "iso", GidMalformed),
     TestDict(MaxAmount, <<"a", "b">>, "a", "equal", NoSplits, "iso", GidMissing),
     TestDict(0, <<"a", "b">>, "a", "equal", NoSplits, "iso", GidNone)}

StoredPaymentRequests ==
    {p \in PaymentRequests :
        /\ p.group_id = GidNone
        /\ p.amount = MaxAmount
        /\ p.payer = "a" /\ p.payee = "b"
        /\ p.created_at \in {"iso", "bad"}}

(***************************************************************************)
(* One iteration of the loop of fix_expenses: the cursor yields a stored   *)
(* expense of method custom and update_one rewrites that one document.     *)
(* Between two iterations other requests are served.                       *)
(***************************************************************************)
fix_expenses_step(i) ==
    /\ expenses[i].split_method = "custom"
    /\ expenses' = [expenses EXCEPT ![i] = FixDoc(@)]
    /\ last' = [op |-> "fix_expenses_step", resp |-> Ok]
    /\ UNCHANGED <<users, groups, payments, split_in, split_out, signups>>

SignupPair == \E email \in {"a", "b"} : signup(email)

AddStoredExpense ==
    /\ Len(expenses) < MaxExpenses
    /\ \E caller \in {"a", "b"}, expense \in StoredExpenseDicts :
          add_test_expense(expense, caller)

AddStoredPayment ==
    /\ Len(payments) < MaxPayments
    /\ \E caller \in {"a", "b"}, payment \in StoredPaymentRequests :
          add_payment(payment, caller)

FixExpensesStep == \E i \in 1..Len(expenses) : fix_expenses_step(i)

NextStored ==
    \/ SignupPair
    \/ AddStoredExpense
    \/ AddStoredPayment
    \/ FixExpenses
    \/ FixExpensesStep

SpecStored == Init /\ [][NextStored]_vars

(***************************************************************************)
(* The group ledger: a group of a and b, expenses and payments with and    *)
(* without its id, and expenses that carry the ObjectId of no group.       *)
(***************************************************************************)
GroupLedgerGroups == {g \in GroupRequests : g.created_by = "a"}

GroupLedgerExpenses ==
    {e \in ExpenseRequests :
        /\ e.group_id \in {GidNone, Gid(1)}
        /\ e.amount = MaxAmount
        /\ e.participants = <<"a", "b">>
        /\ e.paid_by \in {"a", "b"}
        /\ e.split_method = "equal"}

UnknownGroupDicts ==
    {TestDict(MaxAmount, ps, pb, "equal", NoSplits, "iso", GidMissing) :
        ps \in {<<"a", "b">>, <<"a", "b", "c">>}, pb \in {"a", "b"}}

GroupLedgerPayments ==
    {p \in PaymentRequests :
        /\ p.group_id \in {GidNone, Gid(1)}
        /\ p.amount = MaxAmount
        /\ {p.payer, p.payee} = {"a", "b"}
        /\ p.created_at = "iso"}

CreateLedgerGroup ==
    /\ Len(groups) < MaxGroups
    /\ \E group \in GroupLedgerGroups : create_group(group, "a")

AddGroupLedgerExpense ==
    /\ Len(expenses) < MaxExpenses
    /\ \E caller \in {"a", "b"}, expense \in GroupLedgerExpenses :
          add_expense(expense, caller)

AddUnknownGroupExpense ==
    /\ Len(expenses) < MaxExpenses
    /\ \E expense \in UnknownGroupDicts : add_test_expense(expense, "a")

AddGroupLedgerPayment ==
    /\ Len(payments) < MaxPayments
    /\ \E caller \in {"a", "b"}, payment \in GroupLedgerPayments :
          add_payment(payment, caller)

NextGroupLedger ==
    \/ SignupPair
    \/ CreateLedgerGroup
    \/ AddGroupLedgerExpense
    \/ AddUnknownGroupExpense
    \/ AddGroupLedgerPayment

SpecGroupLedger == Init /\ [][NextGroupLedger]_vars



(***************************************************************************)
(* Claims.                                                                 *)
(***************************************************************************)
IsDistinct(ps) == Cardinality(Range(ps)) = Len(ps)

EqualSplitDone == ~split_out.none /\ split_in.split_method = "equal"

(* share is a cent amount nearest to amount / n *)
NearestCent(share, amount, n) == 2 * Abs(n * share - amount) <= n

(* C5, as stated: for an equal split over a participants list of N >= 1    *)
(* entries every participant gets round(amount / N, 2) and the shares of   *)
(* the returned mapping sum to within 0.01 (one cent) of the amount.       *)
C5_SumWithinOneCent ==
    EqualSplitDone =>
        /\ DOMAIN split_out.map = Range(split_in.participants)
        /\ \A p \in DOMAIN split_out.map :
              NearestCent(split_out.map[p], split_in.amount, Len(split_in.participants))
        /\ Abs(MapSum(split_out.map) - split_in.amount) <= 1

(* C5, amended: every participant gets round(amount / N, 2), N the length  *)
(* of the participants list; N times the share is within N x 0.005 of the  *)
(* amount; the mapping sums to N times the share when the N entries are    *)
(* distinct, which is within 0.01 of the amount when N <= 3.               *)
C5_SumWithinHalfCentEach ==
    EqualSplitDone =>
        LET n == Len(split_in.participants)
            share == split_out.map[split_in.participants[1]]
        IN /\ DOMAIN split_out.map = Range(split_in.participants)
           /\ \A p \in DOMAIN split_out.map : split_out.map[p] = share
           /\ NearestCent(share, split_in.amount, n)
           /\ IsDistinct(split_in.participants) =>
                 /\ MapSum(split_out.map) = n * share
                 /\ 2 * Abs(MapSum(split_out.map) - split_in.amount) <= n
                 /\ n <= 3 => Abs(MapSum(split_out.map) - split_in.amount) <= 1

(* C5 witness: an equal split among four distinct participants whose       *)
(* shares miss the amount by two cents.                                    *)
C5_Witness ==
    /\ EqualSplitDone
    /\ Len(split_in.participants) = 4
    /\ IsDistinct(split_in.participants)
    /\ Abs(MapSum(split_out.map) - split_in.amount) = 2

(***************************************************************************)
(* Write-time validation of expenses (specification Spec).                 *)
(***************************************************************************)
CustomSplitsInvalid(e) ==
    /\ e.split_method = "custom"
    /\ \/ e.split_amounts.none
       \/ DOMAIN e.split_amounts.map # Range(e.participants)
       \/ MapSum(e.split_amounts.map) # e.amount

PassesEarlierChecks(e, caller) ==
    /\ e.amount > 0
    /\ Len(e.participants) > 0
    /\ caller \in Range(e.participants)
    /\ e.paid_by \in Range(e.participants)

(* the batch gets as far as its i-th sub-expense: the body is well formed,  *)
(* the group exists and has the caller as a member, and the i - 1          *)
(* sub-expenses before it were inserted                                    *)
BatchReaches(ge, caller, i) ==
    /\ \A j \in 1..Len(ge.expenses) :
          ge.expenses[j].amount > 0 /\ Len(ge.expenses[j].participants) > 0
    /\ GroupExists(ge.group_id)
    /\ caller \in groups[ge.group_id.n].members
    /\ add_group_expense_inserted(ge, caller) = i - 1

StoredCustomSplitsValid ==
    \A i \in 1..Len(expenses) :
        expenses[i].split_method = "custom" =>
            /\ ~expenses[i].splits.none
            /\ DOMAIN expenses[i].splits.map = Range(expenses[i].participants)
            /\ MapSum(expenses[i].splits.map) = expenses[i].amount

(* C6, as stated: a custom-split expense whose explicit splits are missing, *)
(* have a key set other than the participants or do not sum to the amount  *)
(* is rejected with 400 and nothing is inserted, by POST /expense and for   *)
(* each sub-expense of POST /group-expense; every stored custom expense has *)
(* split keys equal to its participants and split sum equal to its amount.  *)
C6_InvalidCustomAlways400 ==
    /\ \A caller \in Registered, e \in ExpenseRequests :
          CustomSplitsInvalid(e) =>
              /\ add_expense_response(e, caller).status = 400
              /\ add_expense_stored(e, caller) = expenses
    /\ \A caller \in Registered, ge \in GroupExpenseRequests :
          \A i \in 1..Len(ge.expenses) :
              CustomSplitsInvalid(ge.expenses[i]) =>
                  /\ add_group_expense_response(ge, caller).status = 400
                  /\ add_group_expense_inserted(ge, caller) < i
    /\ StoredCustomSplitsValid

(* C6, amended: such an expense is always rejected and never inserted; the  *)
(* status is 400 when the request gets as far as the custom-split check     *)
(* (the caller and the payer are participants), otherwise it is the status  *)
(* of the check that failed before it (403 for a caller who is not a        *)
(* participant); every stored custom expense has split keys equal to its    *)
(* participants and split sum equal to its amount.                          *)
C6_InvalidCustomRejected ==
    /\ \A caller \in Registered, e \in ExpenseRequests :
          CustomSplitsInvalid(e) =>
              /\ add_expense_response(e, caller).status \in {400, 403, 422}
              /\ add_expense_stored(e, caller) = expenses
              /\ PassesEarlierChecks(e, caller) =>
                    add_expense_response(e, caller).status = 400
    /\ \A caller \in Registered, ge \in GroupExpenseRequests :
          \A i \in 1..Len(ge.expenses) :
              CustomSplitsInvalid(ge.expenses[i]) =>
                  /\ add_group_expense_response(ge, caller).status # 200
                  /\ add_group_expense_inserted(ge, caller) < i
                  /\ Len(add_group_expense_stored(ge, caller)) < Len(expenses) + i
                  /\ (/\ BatchReaches(ge, caller, i)
                      /\ PassesEarlierChecks(ge.expenses[i], caller))
                     => add_group_expense_response(ge, caller).status = 400
    /\ StoredCustomSplitsValid

(* C6 witness: a custom split that does not sum to the amount has just been *)
(* refused, and nothing is stored.                                          *)
C6_Witness ==
    /\ last.op = "add_expense"
    /\ last.resp = Resp(400, "split_amounts must sum to total amount")
    /\ expenses = <<>>

StoredExpensesWellFormed ==
    \A i \in 1..Len(expenses) :
        /\ expenses[i].amount > 0
        /\ Len(expenses[i].participants) > 0
        /\ expenses[i].paid_by \in Range(expenses[i].participants)

(* C7: POST /expense is rejected and leaves the expenses collection as it   *)
(* is unless amount > 0, the participants list is non-empty, the payer is a *)
(* participant and the requesting user is a participant; every expense      *)
(* stored by POST /expense or POST /group-expense satisfies the four        *)
(* conditions (the fourth for the user whose request stored it).            *)
C7_ExpenseCreationGuarded ==
    /\ \A caller \in Callers, e \in ExpenseRequests :
          /\ ~PassesEarlierChecks(e, caller) =>
                /\ add_expense_response(e, caller).status # 200
                /\ add_expense_stored(e, caller) = expenses
          /\ add_expense_stored(e, caller) # expenses =>
                add_expense_response(e, caller).status = 200
    /\ \A caller \in Callers, ge \in GroupExpenseRequests :
          \A i \in 1..add_group_expense_inserted(ge, caller) :
              PassesEarlierChecks(ge.expenses[i], caller)
    /\ StoredExpensesWellFormed

(* C7 witness: an expense whose payer is not a participant has just been    *)
(* refused and nothing is stored.                                           *)
C7_Witness ==
    /\ last.op = "add_expense"
    /\ last.resp = Resp(400, "paid_by must be one of participants")
    /\ expenses = <<>>

(***************************************************************************)
(* Group membership (specification Spec).                                  *)
(***************************************************************************)
GroupViolation(group_id, e) ==
    /\ group_id.kind = "oid"
    /\ \/ ~GroupExists(group_id)
       \/ ~(Range(e.participants) \cup {e.paid_by} \subseteq groups[group_id.n].members)

StoredExpensesWithinGroup ==
    \A i \in 1..Len(expenses) :
        GroupExists(expenses[i].group_id) =>
            Range(expenses[i].participants) \cup {expenses[i].paid_by}
                \subseteq groups[expenses[i].group_id.n].members

GroupMembersFixed ==
    \A n \in 1..Len(groups) :
        n <= Len(groups') => groups'[n].members = groups[n].members

(* C8, as stated: every stored expense that references an existing group    *)
(* has its payer and participants among the group's members; a request that *)
(* violates this or names a group that does not exist is rejected with 400  *)
(* and inserts nothing; no operation changes a group's member set.          *)
C8_ViolationAlways400 ==
    /\ StoredExpensesWithinGroup
    /\ \A caller \in Registered, e \in ExpenseRequests :
          GroupViolation(e.group_id, e) =>
              /\ add_expense_response(e, caller).status = 400
              /\ add_expense_stored(e, caller) = expenses
    /\ \A caller \in Registered, ge \in GroupExpenseRequests :
          (\E i \in 1..Len(ge.expenses) : GroupViolation(ge.group_id, ge.expenses[i])) =>
              /\ add_group_expense_response(ge, caller).status = 400
              /\ add_group_expense_stored(ge, caller) = expenses

C8_RejectedState ==
    /\ StoredExpensesWithinGroup
    /\ \A caller \in Registered, e \in ExpenseRequests :
          GroupViolation(e.group_id, e) =>
              /\ add_expense_response(e, caller).status \in {400, 403, 422}
              /\ add_expense_stored(e, caller) = expenses
              /\ (PassesEarlierChecks(e, caller) /\ ~CustomSplitsInvalid(e)) =>
                    add_expense_response(e, caller).status = 400
    /\ \A caller \in Registered, ge \in GroupExpenseRequests :
          \A i \in 1..Len(ge.expenses) :
              GroupViolation(ge.group_id, ge.expenses[i]) =>
                  /\ add_group_expense_response(ge, caller).status \in {400, 403, 422}
                  /\ add_group_expense_inserted(ge, caller) < i
                  /\ (/\ BatchReaches(ge, caller, i)
                      /\ PassesEarlierChecks(ge.expenses[i], caller)
                      /\ ~CustomSplitsInvalid(ge.expenses[i]))
                     => add_group_expense_response(ge, caller).status = 400

(* C8, amended: every stored expense that references an existing group has  *)
(* its payer and participants among the group's members; an expense that    *)
(* violates this or names a group that does not exist is always rejected    *)
(* and never inserted, with 400 when it passes the checks made before the   *)
(* group check and otherwise with the status of the earlier failing check   *)
(* (403, 422); in a POST /group-expense batch the sub-expenses before it    *)
(* stay inserted; no operation changes a group's member set.                *)
C8_ViolationRejected == [](C8_RejectedState) /\ [][GroupMembersFixed]_vars

(* C8 witness: an expense of an existing group has just been stored.        *)
C8_Witness ==
    /\ last.op = "add_expense"
    /\ last.resp = Ok
    /\ Len(expenses) = 1
    /\ GroupExists(expenses[1].group_id)

(***************************************************************************)
(* Balances (specification SpecLedger).                                    *)
(***************************************************************************)
(* every expense A and B share was paid by A, and no payment is between    *)
(* them                                                                    *)
OnlyPaidBy(A, B) ==
    /\ \A i \in 1..Len(expenses) :
          {A, B} \subseteq Range(expenses[i].participants) => expenses[i].paid_by = A
    /\ \A i \in 1..Len(payments) : {payments[i].payer, payments[i].payee} # {A, B}

(* C1: for distinct users A and B, after ungrouped expenses in which A is   *)
(* the payer and B a participant, and no other record between the two, the  *)
(* net balance A's view shows for B is the negation of the one B's view     *)
(* shows for A.                                                             *)
C1_NetBalanceSymmetry ==
    \A A \in Emails, B \in Emails :
        (A # B /\ OnlyPaidBy(A, B)) => NetBalance(A, B) = -NetBalance(B, A)

(* C2: in the view of a participant who is not the payer, an expense adds   *)
(* minus the viewer's own share to net_balances[payer] and nothing to any   *)
(* other counterparty.                                                      *)
C2_NonPayerOwesShare ==
    \A i \in 1..Len(expenses) :
        \A viewer \in Range(expenses[i].participants) \ {expenses[i].paid_by} :
            /\ ExpenseContribution(expenses[i], viewer) =
                  [p \in {expenses[i].paid_by} |->
                      -calculate_split(ExpenseModel(expenses[i]))[viewer]]
            /\ (Len(expenses) = 1 /\ payments = <<>>) =>
                  get_user_expenses_by_email(viewer).net_balances =
                      [p \in {expenses[i].paid_by} |->
                          -calculate_split(ExpenseModel(expenses[i]))[viewer]]

PaymentRecorded(payer, payee, amount) ==
    /\ last'.op = "add_payment"
    /\ last'.resp = Ok
    /\ Len(payments') = Len(payments) + 1
    /\ payments'[Len(payments')].payer = payer
    /\ payments'[Len(payments')].payee = payee
    /\ payments'[Len(payments')].amount = amount

(* C3: once POST /payment has recorded "A pays B amount X" successfully,    *)
(* A's view of B is lower by exactly X than before and B's view of A is     *)
(* higher by exactly X (absent entries count as 0).                         *)
C3_PaymentShiftsBothViews ==
    [][\A A \in Emails, B \in Emails, X \in -1..MaxAmount :
          (A # B /\ PaymentRecorded(A, B, X)) =>
              /\ NetBalance(A, B)' = NetBalance(A, B) - X
              /\ NetBalance(B, A)' = NetBalance(B, A) + X]_vars

(* C4: if B owes A an amount D > 0 because of expenses paid by A and B then *)
(* records a payment of X <= D to A (stamped by the server), the amount B   *)
(* owes A is D - X afterwards in A's view and in B's view.                  *)
C4_PaymentReducesDebt ==
    [][\A A \in Emails, B \in Emails, X \in 1..MaxAmount :
          (/\ A # B
           /\ OnlyPaidBy(A, B)
           /\ NetBalance(A, B) > 0
           /\ X <= NetBalance(A, B)
           /\ PaymentRecorded(B, A, X)
           /\ payments'[Len(payments')].created_at = "datetime") =>
              /\ NetBalance(A, B)' = NetBalance(A, B) - X
              /\ NetBalance(B, A)' = -(NetBalance(A, B) - X)]_vars

(***************************************************************************)
(* Write-time validation of payments (specification SpecPayment).          *)
(***************************************************************************)
(* C9: POST /payment is rejected and leaves the payments collection as it   *)
(* is when payer equals payee or when the requesting user is neither the    *)
(* payer nor the payee; every stored payment has payer # payee.             *)
C9_PaymentPartiesChecked ==
    /\ \A caller \in Callers, p \in PaymentRequests :
          (p.payer = p.payee \/ caller \notin {p.payer, p.payee}) =>
              /\ add_payment_response(p, caller).status \in {401, 403, 422}
              /\ add_payment_stored(p, caller) = payments
    /\ \A i \in 1..Len(payments) : payments[i].payer # payments[i].payee

(* C9 witness: a payment between two other users has just been refused and  *)
(* nothing is stored.                                                       *)
C9_Witness ==
    /\ last.op = "add_payment"
    /\ last.resp = Resp(403, "Current user must be either payer or payee")
    /\ payments = <<>>

(* C10: every payment stored through POST /payment has a strictly positive  *)
(* amount; a request with amount <= 0 is rejected and inserts nothing.      *)
C10_PaymentAmountPositive ==
    /\ \A i \in 1..Len(payments) : payments[i].amount > 0
    /\ \A caller \in Callers, p \in PaymentRequests :
          p.amount <= 0 =>
              /\ add_payment_response(p, caller).status # 200
              /\ add_payment_stored(p, caller) = payments

(***************************************************************************)
(* Users (specification SpecSignup).                                       *)
(***************************************************************************)
(* C11: in every reachable state, signups whose steps interleave included,  *)
(* the users collection holds at most one record per email, and a signup    *)
(* for a registered email fails with 400 without inserting.                 *)
C11_UserEmailsUnique ==
    /\ \A e \in Emails : users[e] <= 1
    /\ (last.op = "signup" /\ last.resp = EmailTaken) => Registered # {}

(***************************************************************************)
(* Groups (specification SpecGroup).                                       *)
(***************************************************************************)
(* C12: POST /group is rejected with 400 when a group of the same name      *)
(* exists for the same creator, so no two stored groups share both name and *)
(* created_by, whatever the caller and the created_by of the body.          *)
C12_GroupNameUniquePerCreator ==
    /\ \A i \in 1..Len(groups), j \in 1..Len(groups) :
          (i # j /\ groups[i].name = groups[j].name) =>
              groups[i].created_by # groups[j].created_by
    /\ \A caller \in Registered, group \in GroupRequests :
          (/\ GroupBodyValid(group)
           /\ \E i \in 1..Len(groups) :
                 groups[i].name = group.name /\ groups[i].created_by = group.created_by)
          => create_group_response(group, caller).status = 400

(***************************************************************************)
(* Batches (specification Spec).                                           *)
(***************************************************************************)
(* the batch gets past validate_group_members(group_id, [], caller): the    *)
(* caller is registered, the group exists and the caller is a member        *)
GroupLevelOk(ge, caller) ==
    /\ caller \in Registered
    /\ GroupExists(ge.group_id)
    /\ caller \in groups[ge.group_id.n].members

HandlerRefuses(ge, caller, k) ==
    SubExpenseResponse(ge.expenses[k], ge.group_id, caller) # Ok

FailsValidation(ge, caller, k) ==
    ~ExpenseBodyValid(ge.expenses[k]) \/ HandlerRefuses(ge, caller, k)

PrefixInserted(ge, caller, k) ==
    /\ add_group_expense_response(ge, caller).status # 200
    /\ Len(add_group_expense_stored(ge, caller)) = Len(expenses) + k - 1
    /\ \A j \in 1..Len(expenses) : add_group_expense_stored(ge, caller)[j] = expenses[j]
    /\ \A j \in 1..(k - 1) :
          add_group_expense_stored(ge, caller)[Len(expenses) + j] =
              ExpenseDoc(ge.expenses[j], ge.group_id)

(* C13, as stated: when sub-expense k of a POST /group-expense is the first *)
(* to fail validation, the request fails, sub-expenses 1..k-1 have been     *)
(* inserted and stay, and sub-expenses k..n are not inserted.               *)
C13_FirstFailureKeepsPrefix ==
    \A caller \in Callers, ge \in GroupExpenseRequests :
        \A k \in 1..Len(ge.expenses) :
            (/\ GroupLevelOk(ge, caller)
             /\ FailsValidation(ge, caller, k)
             /\ \A j \in 1..(k - 1) : ~FailsValidation(ge, caller, j))
            => PrefixInserted(ge, caller, k)

(* C13, amended: a batch with a sub-expense the request-body validators     *)
(* refuse (amount <= 0, no participants) fails with 422 and inserts         *)
(* nothing; otherwise, when sub-expense k is the first the handler refuses  *)
(* (caller or payer not a participant, custom splits, group membership),    *)
(* the request fails with that refusal, sub-expenses 1..k-1 have been       *)
(* inserted and stay, and sub-expenses k..n are not inserted.               *)
C13_FirstRefusalKeepsPrefix ==
    \A caller \in Callers, ge \in GroupExpenseRequests :
        /\ (caller \in Registered /\ ~GroupExpenseBodyValid(ge)) =>
              /\ add_group_expense_response(ge, caller) = Unprocessable
              /\ add_group_expense_stored(ge, caller) = expenses
        /\ \A k \in 1..Len(ge.expenses) :
              (/\ GroupLevelOk(ge, caller)
               /\ GroupExpenseBodyValid(ge)
               /\ HandlerRefuses(ge, caller, k)
               /\ \A j \in 1..(k - 1) : ~HandlerRefuses(ge, caller, j))
              => /\ PrefixInserted(ge, caller, k)
                 /\ add_group_expense_response(ge, caller) =
                       SubExpenseResponse(ge.expenses[k], ge.group_id, caller)

(* C13 witness: a batch has just failed on its second sub-expense and its   *)
(* first sub-expense is in the store.                                       *)
C13_Witness ==
    /\ last.op = "add_group_expense"
    /\ last.resp.status \in {400, 403}
    /\ Len(expenses) = 1

(***************************************************************************)
(* Reports and maintenance (specification SpecReports).                    *)
(***************************************************************************)
ViewIds(view) == {view.expenses[k].id : k \in 1..Len(view.expenses)}

(* stored by POST /expense or POST /group-expense, which record the         *)
(* unregistered participants                                                *)
StoredByExpenseEndpoint(doc) == "unregistered_participants" \in DOMAIN doc

(* C14: every expense a user created through POST /expense or               *)
(* POST /group-expense is in the list GET /user/created-expenses returns to *)
(* that user. The creator is one of the participants (POST /expense refuses *)
(* any other caller), so the expense is in the list of a participant.       *)
C14_CreatedExpensesListed ==
    \A i \in 1..Len(expenses) :
        StoredByExpenseEndpoint(expenses[i]) =>
            \E U \in Range(expenses[i].participants) :
                i \in ViewIds(created_expenses(U))

(* C15: POST /fix-expenses is idempotent: in any store state a second run   *)
(* right after a first one reports 0 fixed expenses and leaves the store as *)
(* the first run left it.                                                   *)
C15_FixExpensesIdempotent ==
    /\ FixedCount(FixedStore(expenses)) = 0
    /\ FixedStore(FixedStore(expenses)) = FixedStore(expenses)
    /\ (last.op = "fix_expenses" /\ last.resp = Ok) =>
          /\ FixedCount(expenses) = 0
          /\ FixedStore(expenses) = expenses

(* C15 witness: a run has just fixed an expense.                            *)
C15_Witness ==
    /\ last.op = "fix_expenses"
    /\ last.resp = Ok
    /\ last.fixed > 0

ViewJustReturned ==
    /\ last.op = "get_user_expenses"
    /\ last.resp = Ok

ReadOnlyStep == last'.op = "get_user_expenses" => store' = store

(* C16: get_user_expenses_by_email changes no record of the four            *)
(* collections, and a second call for the same email with no write in       *)
(* between returns the expenses, net_balances and group_balances the first  *)
(* call returned.                                                           *)
C16_AggregationReadOnly ==
    /\ [](ViewJustReturned => get_user_expenses_by_email(last.email) = last.view)
    /\ [][ReadOnlyStep]_vars

(* C16 witness: a view listing an expense and a balance has just been       *)
(* returned.                                                                *)
C16_Witness ==
    /\ ViewJustReturned
    /\ Len(last.view.expenses) > 0
    /\ DOMAIN last.view.net_balances # {}

(***************************************************************************)
(* Unregistered participants (specification Spec).                         *)
(***************************************************************************)
NoRecord(emails) == {p \in emails : users[p] = 0}

GroupAllows(group_id, emails) ==
    \/ group_id.kind = "none"
    \/ GroupExists(group_id) /\ emails \subseteq groups[group_id.n].members

(* C17: POST /expense and POST /payment succeed whether or not the          *)
(* participants, the payer or the payee have a user record, and the         *)
(* unregistered list stored with the new record is exactly the set of those *)
(* emails that have no user record when it is created.                      *)
C17_UnregisteredFlagged ==
    /\ \A caller \in Registered, e \in ExpenseRequests :
          (/\ PassesEarlierChecks(e, caller)
           /\ ~CustomSplitsInvalid(e)
           /\ GroupAllows(e.group_id, Range(e.participants) \cup {e.paid_by}))
          => /\ add_expense_response(e, caller) = Ok
             /\ Len(add_expense_stored(e, caller)) = Len(expenses) + 1
             /\ add_expense_stored(e, caller)[Len(expenses) + 1].unregistered_participants
                   = NoRecord(Range(e.participants) \cup {e.paid_by})
    /\ \A caller \in Registered, p \in PaymentRequests :
          (/\ p.payer # p.payee
           /\ caller \in {p.payer, p.payee}
           /\ GroupAllows(p.group_id, {p.payer, p.payee}))
          => /\ add_payment_checks(p, caller) = Ok
             /\ p.created_at # "bad" => add_payment_response(p, caller) = Ok
             /\ Len(add_payment_stored(p, caller)) = Len(payments) + 1
             /\ add_payment_stored(p, caller)[Len(payments) + 1].unregistered
                   = NoRecord({p.payer, p.payee})

(* C17 witness: an expense with a participant who has no user record has    *)
(* just been stored, and the participant is flagged.                        *)
C17_Witness ==
    /\ last.op = "add_expense"
    /\ last.resp = Ok
    /\ Len(expenses) = 1
    /\ expenses[1].unregistered_participants # {}
    /\ expenses[1].unregistered_participants = NoRecord(Range(expenses[1].participants))

(***************************************************************************)
(* Views (specification SpecLedger).                                       *)
(***************************************************************************)
(* the sum, over the stored expenses from the i-th on that name email as a  *)
(* participant, of what each adds to the entry of other in the view of      *)
(* email                                                                    *)
RECURSIVE SumContributions(_, _, _)
SumContributions(i, email, other) ==
    IF i > Len(expenses) THEN 0
    ELSE (IF email \in Range(expenses[i].participants)
          THEN Get(ExpenseContribution(expenses[i], email), other) ELSE 0)
         + SumContributions(i + 1, email, other)

SignedUp == last.op = "signup" /\ last.resp = Ok

(* C18: the previous_expenses a successful POST /signup of E returns is the *)
(* view GET /user/expenses returns for E right after; it lists every        *)
(* expense recorded earlier that names E as a participant, with its balance *)
(* contribution.                                                            *)
C18_SignupSurfacesActivity ==
    SignedUp =>
        /\ last.previous_expenses = get_user_expenses_by_email(last.email)
        /\ \A i \in 1..Len(expenses) :
              last.email \in Range(expenses[i].participants) =>
                  i \in ViewIds(last.previous_expenses)
        /\ payments = <<>> =>
              \A other \in Emails :
                  Get(last.previous_expenses.net_balances, other) =
                      SumContributions(1, last.email, other)

(* C18 witness: a user named in an earlier expense has just signed up and   *)
(* got the expense and a balance.                                           *)
C18_Witness ==
    /\ SignedUp
    /\ Len(last.previous_expenses.expenses) > 0
    /\ DOMAIN last.previous_expenses.net_balances # {}

(* every expense that names V was paid by V, and no payment involves V      *)
PayerOfAll(V) ==
    /\ \A i \in 1..Len(expenses) :
          V \in Range(expenses[i].participants) => expenses[i].paid_by = V
    /\ \A i \in 1..Len(payments) : V \notin {payments[i].payer, payments[i].payee}

(* the sum of the stored shares of p in the expenses, from the i-th on,     *)
(* that V paid and that name p                                              *)
RECURSIVE SumShares(_, _, _)
SumShares(i, V, p) ==
    IF i > Len(expenses) THEN 0
    ELSE (IF /\ expenses[i].paid_by = V
             /\ {V, p} \subseteq Range(expenses[i].participants)
          THEN expenses[i].splits.map[p] ELSE 0)
         + SumShares(i + 1, V, p)

(* C19: in the view of a user who is the payer of expenses e1..ek,          *)
(* net_balances[p] is the sum over those expenses of p's share in each      *)
(* expense that names p, and the payer has no entry for themself.           *)
C19_PayerViewIsSum ==
    \A V \in Emails :
        PayerOfAll(V) =>
            /\ V \notin DOMAIN get_user_expenses_by_email(V).net_balances
            /\ \A p \in Emails \ {V} : NetBalance(V, p) = SumShares(1, V, p)

StoredSplitsValid(doc) ==
    /\ doc.split_method = "custom"
    /\ ~doc.splits.none
    /\ DOMAIN doc.splits.map = Range(doc.participants)
    /\ MapSum(doc.splits.map) = doc.amount

(* C20: for a stored custom expense whose stored splits have the            *)
(* participants as keys and sum to the amount, the view reports the stored  *)
(* shares as the splits of the expense and uses them for the balance        *)
(* contributions (here: what the payer is owed by each other participant).  *)
C20_StoredCustomSplitsHonoured ==
    \A i \in 1..Len(expenses) :
        StoredSplitsValid(expenses[i]) =>
            /\ \A V \in Range(expenses[i].participants) :
                  \A k \in 1..Len(get_user_expenses_by_email(V).expenses) :
                      get_user_expenses_by_email(V).expenses[k].id = i =>
                          get_user_expenses_by_email(V).expenses[k].splits
                              = expenses[i].splits.map
            /\ ExpenseContribution(expenses[i], expenses[i].paid_by) =
                  [p \in Range(expenses[i].participants) \ {expenses[i].paid_by} |->
                      expenses[i].splits.map[p]]

(***************************************************************************)
(* The view of email after the expense loop has gone through the first n   *)
(* stored expenses.                                                        *)
(***************************************************************************)
RECURSIVE PrefixExpenses(_, _)
PrefixExpenses(n, email) ==
    IF n = 0 THEN EmptyView
    ELSE LET acc == PrefixExpenses(n - 1, email)
         IN IF email \in Range(expenses[n].participants)
            THEN ProcessExpense(acc, n, expenses[n], email) ELSE acc

StoredSplitsMissingOrOff(doc) ==
    /\ doc.split_method = "custom"
    /\ doc.splits.none \/ MapSum(doc.splits.map) # doc.amount

(* the record carries no other defect: its timestamp parses and its        *)
(* group_id, if any, is an ObjectId                                        *)
OtherwiseReadable(doc) ==
    /\ FromIsoFormatOk(doc.created_at)
    /\ doc.group_id.kind # "malformed"

(***************************************************************************)
(* C21. Read-time silent fallback: a stored expense of method custom whose *)
(* stored splits are missing or do not sum to the amount does not make the *)
(* aggregation fail and is not dropped. In the view of each of its         *)
(* participants it is listed with the equal shares round(amount / N, 2),   *)
(* and it moves the net balances by exactly that share: the payer's        *)
(* balance with every other participant, a non-payer's balance with the    *)
(* payer.                                                                  *)
(***************************************************************************)
C21_ReadTimeEqualFallback ==
    \A email \in Emails :
        /\ PrefixExpenses(Len(expenses), email) = FoldExpenses(EmptyView, 1, email)
        /\ \A i \in 1..Len(expenses) :
            LET doc == expenses[i]
                before == PrefixExpenses(i - 1, email)
                after == PrefixExpenses(i, email)
                share == RoundShare(doc.amount, Len(doc.participants))
            IN (/\ email \in Range(doc.participants)
                /\ StoredSplitsMissingOrOff(doc)
                /\ OtherwiseReadable(doc)
                /\ ~before.error)
               => /\ ~after.error
                  /\ Len(after.expenses) = Len(before.expenses) + 1
                  /\ after.expenses[Len(after.expenses)].id = i
                  /\ after.expenses[Len(after.expenses)].splits
                        = [p \in Range(doc.participants) |-> share]
                  /\ email = doc.paid_by =>
                        \A p \in Range(doc.participants) \ {email} :
                            Get(after.net_balances, p) - Get(before.net_balances, p) = share
                  /\ email # doc.paid_by =>
                        Abs(Get(after.net_balances, doc.paid_by)
                            - Get(before.net_balances, doc.paid_by)) = share

(* a custom expense of amount MaxAmount with stored splits 1 and MaxAmount  *)
(* is listed in the view of b with two shares of MaxAmount / 2              *)
C21_Witness ==
    \E i \in 1..Len(expenses) :
        LET view == get_user_expenses_by_email("b")
        IN /\ StoredSplitsMissingOrOff(expenses[i])
           /\ expenses[i].splits = OneTwo
           /\ ~view.error
           /\ \E k \in 1..Len(view.expenses) :
                 /\ view.expenses[k].id = i
                 /\ view.expenses[k].splits = [p \in {"a", "b"} |-> MaxAmount \div 2]
           /\ Get(view.net_balances, "a") # 0

(* custom splits that hold every participant and an email that is no       *)
(* participant, and sum to the amount                                      *)
SupersetSplits(e) ==
    /\ e.split_method = "custom"
    /\ ~e.split_amounts.none
    /\ Range(e.participants) \subseteq DOMAIN e.split_amounts.map
    /\ Range(e.participants) # DOMAIN e.split_amounts.map
    /\ MapSum(e.split_amounts.map) = e.amount

SupersetRequests == {e \in ExpenseRequests : SupersetSplits(e)}

(* the request gets as far as the check of the custom splits *)
ReachesCustomCheck(e, caller) ==
    /\ caller \in Registered
    /\ ExpenseBodyValid(e)
    /\ caller \in Range(e.participants)
    /\ e.paid_by \in Range(e.participants)

KeysMismatch == Resp(400, "split_amounts must include all participants for custom split")

C23_UnknownMethodListed ==
    \A email \in Emails : \A i \in 1..Len(expenses) :
        LET doc == expenses[i]
            before == PrefixExpenses(i - 1, email)
            after == PrefixExpenses(i, email)
            share == RoundShare(doc.amount, Len(doc.participants))
        IN (/\ email \in Range(doc.participants)
            /\ doc.split_method \notin {"equal", "custom"}
            /\ OtherwiseReadable(doc)
            /\ ~before.error)
           => /\ ~after.error
              /\ Len(after.expenses) = Len(before.expenses) + 1
              /\ after.expenses[Len(after.expenses)].id = i
              /\ after.expenses[Len(after.expenses)].splits
                    = [p \in Range(doc.participants) |-> share]
              /\ after.net_balances # before.net_balances

(* a stored expense of method custom whose splits are missing, have keys   *)
(* other than the participants, or do not sum to the amount                *)
ViolatesSplitInvariant(doc) ==
    /\ doc.split_method = "custom"
    /\ \/ doc.splits.none
       \/ DOMAIN doc.splits.map # Range(doc.participants)
       \/ MapSum(doc.splits.map) # doc.amount

FixRunCompleted == last.op = "fix_expenses" /\ last.resp = Ok

RewrittenEqual(doc) ==
    [doc EXCEPT !.split_method = "equal",
                !.splits = SomeSplits([p \in Range(doc.participants) |->
                                          RoundShare(doc.amount, Len(doc.participants))])]

FixRunRewritesViolators ==
    FixRunCompleted' =>
        /\ Len(expenses') = Len(expenses)
        /\ \A i \in 1..Len(expenses) :
              expenses'[i] = IF ViolatesSplitInvariant(expenses[i])
                             THEN RewrittenEqual(expenses[i])
                             ELSE expenses[i]
        /\ UNCHANGED <<users, groups, payments>>

(***************************************************************************)
(* C24. fix_expenses rewrites exactly the violating records: after a run   *)
(* with no write in between, every stored expense that had method custom   *)
(* and splits that were missing, had keys other than the participants or   *)
(* did not sum to the amount has method equal and the splits               *)
(* {p: round(amount / N, 2)} over its participants; every other expense    *)
(* and every user, group and payment record is unchanged; and no stored    *)
(* expense of method custom violates the key-match/sum-match invariant     *)
(* afterwards.                                                             *)
(***************************************************************************)
C24_FixRewritesExactlyViolators ==
    /\ [](FixRunCompleted =>
             \A i \in 1..Len(expenses) : ~ViolatesSplitInvariant(expenses[i]))
    /\ [][FixRunRewritesViolators]_vars

(* a run that fixed one record and left a valid custom record and a        *)
(* payment in place                                                        *)
C24_Witness ==
    /\ FixRunCompleted
    /\ last.fixed = 1
    /\ Len(payments) = 1
    /\ \E i, j \in 1..Len(expenses) :
          /\ expenses[i].split_method = "custom"
          /\ expenses[i].splits = OneTwo
          /\ expenses[j].split_method = "equal"
          /\ expenses[j].amount = MaxAmount
          /\ expenses[j].participants = <<"a", "b">>
          /\ expenses[j].paid_by = "b"

(***************************************************************************)
(* The view of email built from its expenses and payments whose group_id   *)
(* is in gids only.                                                        *)
(***************************************************************************)
RECURSIVE TaggedExpenses(_, _, _)
TaggedExpenses(n, email, gids) ==
    IF n = 0 THEN EmptyView
    ELSE LET acc == TaggedExpenses(n - 1, email, gids)
         IN IF email \in Range(expenses[n].participants) /\ expenses[n].group_id \in gids
            THEN ProcessExpense(acc, n, expenses[n], email) ELSE acc

RECURSIVE TaggedPayments(_, _, _)
TaggedPayments(n, email, gids) ==
    IF n = 0 THEN TaggedExpenses(Len(expenses), email, gids)
    ELSE LET acc == TaggedPayments(n - 1, email, gids)
         IN IF email \in {payments[n].payer, payments[n].payee}
               /\ payments[n].group_id \in gids
            THEN ProcessPayment(acc, payments[n], email) ELSE acc

TaggedView(email, gids) == TaggedPayments(Len(payments), email, gids)

StoredGroupIds ==
    {expenses[i].group_id : i \in 1..Len(expenses)}
        \cup {payments[i].group_id : i \in 1..Len(payments)}

(***************************************************************************)
(* C25. Group balances aggregate the same contributions as net balances:   *)
(* for a viewer and a group id G of an existing group, or of no group      *)
(* (label 'Unknown Group'), group_balances['{name} (G)'] is the sum, over  *)
(* the viewer's expenses and payments tagged G, of the signed amounts      *)
(* those records add to the viewer's net_balances; records without a       *)
(* group id contribute to no group balance.                                *)
(***************************************************************************)
C25_GroupBalancesFollowNet ==
    \A email \in Emails :
        LET view == get_user_expenses_by_email(email)
        IN ~view.error =>
            /\ TaggedView(email, StoredGroupIds) = view
            /\ \A G \in StoredGroupIds \ {GidNone} :
                  Get(view.group_balances, <<GroupName(G), G.n>>)
                      = MapSum(TaggedView(email, {G}).net_balances)
            /\ TaggedView(email, {GidNone}).group_balances = EmptyMap
            /\ view.group_balances
                  = TaggedView(email, StoredGroupIds \ {GidNone}).group_balances

(* the viewer a holds an expense of the group, a payment of the group and   *)
(* an expense tagged with the id of no group, and both labels carry a       *)
(* balance                                                                  *)
C25_Witness ==
    LET view == get_user_expenses_by_email("a")
    IN /\ ~view.error
       /\ Len(groups) = 1
       /\ \E i \in 1..Len(expenses) : expenses[i].group_id = Gid(1)
       /\ \E i \in 1..Len(expenses) : expenses[i].group_id = GidMissing
       /\ \E i \in 1..Len(payments) : payments[i].group_id = Gid(1)
       /\ Get(view.group_balances, <<"Unknown Group", 0>>)
             = Get(view.net_balances, "b") + Get(view.net_balances, "c")
                 - MapSum(TaggedView("a", {Gid(1)}).net_balances)
       /\ Get(view.net_balances, "c") # 0
       /\ Get(view.group_balances, <<groups[1].name, 1>>) # 0

(***************************************************************************)
(* C26. A stored expense whose group id is malformed is still listed in    *)
(* the view's expenses, with group name 'Invalid Group', but contributes   *)
(* nothing to the structured balances of the view: it changes neither      *)
(* group_balances nor net_balances.                                        *)
(***************************************************************************)
C26_MalformedGroupListedOnly ==
    \A email \in Emails : \A i \in 1..Len(expenses) :
        LET doc == expenses[i]
            before == PrefixExpenses(i - 1, email)
            after == PrefixExpenses(i, email)
        IN (/\ email \in Range(doc.participants)
            /\ doc.group_id.kind = "malformed"
            /\ FromIsoFormatOk(doc.created_at)
            /\ ExpenseModelValid(doc)
            /\ ~before.error)
           => /\ ~after.error
              /\ Len(after.expenses) = Len(before.expenses) + 1
              /\ after.expenses[Len(after.expenses)].id = i
              /\ after.expenses[Len(after.expenses)].group_name = "Invalid Group"
              /\ after.net_balances = before.net_balances
              /\ after.group_balances = before.group_balances

(***************************************************************************)
(* The view of email built from the stored expenses and payments whose     *)
(* created_at is a datetime or a string datetime.fromisoformat parses.     *)
(***************************************************************************)
TimestampMalformed(doc) == doc.created_at \in {"bad", "epoch", "empty"}

RECURSIVE ParseableExpenses(_, _)
ParseableExpenses(n, email) ==
    IF n = 0 THEN EmptyView
    ELSE LET acc == ParseableExpenses(n - 1, email)
         IN IF email \in Range(expenses[n].participants)
               /\ ~TimestampMalformed(expenses[n])
            THEN ProcessExpense(acc, n, expenses[n], email) ELSE acc

RECURSIVE ParseablePayments(_, _)
ParseablePayments(n, email) ==
    IF n = 0 THEN ParseableExpenses(Len(expenses), email)
    ELSE LET acc == ParseablePayments(n - 1, email)
         IN IF email \in {payments[n].payer, payments[n].payee}
               /\ ~TimestampMalformed(payments[n])
            THEN ProcessPayment(acc, payments[n], email) ELSE acc

(***************************************************************************)
(* C27. A stored expense or payment whose timestamp is a string that does  *)
(* not parse is dropped as a whole by get_user_expenses_by_email: it is    *)
(* absent from the expense list and adds nothing to net_balances or        *)
(* group_balances, while every other record of the viewer is still         *)
(* aggregated and the query succeeds.                                      *)
(***************************************************************************)
C27_MalformedTimestampSkipped ==
    \A email \in Emails :
        LET view == get_user_expenses_by_email(email)
        IN /\ view = ParseablePayments(Len(payments), email)
           /\ \A k \in 1..Len(view.expenses) :
                 ~TimestampMalformed(expenses[view.expenses[k].id])
           /\ (\A i \in 1..Len(expenses) :
                  expenses[i].group_id.kind = "malformed" => TimestampMalformed(expenses[i]))
              => ~view.error

(* a holds an expense and a payment whose timestamps do not parse and one   *)
(* expense whose timestamp does: the view lists that one and its share      *)
C27_Witness ==
    LET view == get_user_expenses_by_email("a")
    IN /\ \E i \in 1..Len(expenses) : TimestampMalformed(expenses[i])
       /\ \E i \in 1..Len(payments) :
             TimestampMalformed(payments[i]) /\ payments[i].payer = "a"
       /\ ~view.error
       /\ Len(view.expenses) = 1
       /\ ~TimestampMalformed(expenses[view.expenses[1].id])
       /\ view.net_balances = [p \in {"b"} |-> MaxAmount \div 2]

(***************************************************************************)
(* The view of email after the expense loop and the first n stored         *)
(* payments.                                                               *)
(***************************************************************************)
RECURSIVE PrefixPayments(_, _)
PrefixPayments(n, email) ==
    IF n = 0 THEN FoldExpenses(EmptyView, 1, email)
    ELSE LET acc == PrefixPayments(n - 1, email)
         IN IF email \in {payments[n].payer, payments[n].payee}
            THEN ProcessPayment(acc, payments[n], email) ELSE acc

(***************************************************************************)
(* C28. Every payment that POST /payment accepts and persists is counted   *)
(* at read time: the stored payment changes net_balances in the views of   *)
(* both its payer and its payee, whatever created_at string the request    *)
(* carried.                                                                *)
(***************************************************************************)
C28_AcceptedPaymentCounted ==
    \A i \in 1..Len(payments) :
        LET doc == payments[i]
        IN /\ PrefixPayments(Len(payments), doc.payer) = get_user_expenses_by_email(doc.payer)
           /\ Get(PrefixPayments(i, doc.payer).net_balances, doc.payee)
                 # Get(PrefixPayments(i - 1, doc.payer).net_balances, doc.payee)
           /\ Get(PrefixPayments(i, doc.payee).net_balances, doc.payer)
                 # Get(PrefixPayments(i - 1, doc.payee).net_balances, doc.payer)

(* POST /expense by U with body e has just succeeded and stored its record *)
ExpenseJustCreated(e, U) ==
    /\ add_expense_response(e, U) = Ok
    /\ expenses' = add_expense_stored(e, U)
    /\ last' = [op |-> "add_expense", resp |-> Ok]
    /\ payments' = payments

(***************************************************************************)
(* C29. The creation response agrees with the derived view: after a        *)
(* successful POST /expense by U, for every counterparty c the value       *)
(* balances_for_current_user[c] of the response equals the change this     *)
(* expense makes to U's net_balances[c] as GET /user/expenses returns it,  *)
(* in sign and in size, whether U is the payer or a non-paying             *)
(* participant.                                                            *)
(***************************************************************************)
C29_ResponseAgreesWithView ==
    [][\A e \in LedgerExpenseRequests, U \in Callers, c \in Emails :
          ExpenseJustCreated(e, U) =>
              Get(add_expense_balances(e, U), c) = NetBalance(U, c)' - NetBalance(U, c)]_vars

(* what the read side reports as balances, or that the request failed *)
Balances(view) == <<view.error, view.net_balances, view.group_balances>>

SweepStep == last'.op \in {"fix_expenses", "fix_expenses_step"}

(* a step of the sweep rewrites some of the stored expenses by FixDoc and   *)
(* touches nothing else the read side looks at                              *)
SweepRewritesBySteps ==
    SweepStep =>
        /\ \E S \in SUBSET (1..Len(expenses)) :
              expenses' = [i \in 1..Len(expenses) |->
                              IF i \in S THEN FixDoc(expenses[i]) ELSE expenses[i]]
        /\ UNCHANGED <<groups, payments>>

(***************************************************************************)
(* The view of email when the aggregation reads the records in S after the *)
(* sweep has rewritten them and the other records before.                  *)
(***************************************************************************)
RECURSIVE SweptExpenses(_, _, _)
SweptExpenses(n, email, S) ==
    IF n = 0 THEN EmptyView
    ELSE LET acc == SweptExpenses(n - 1, email, S)
             doc == IF n \in S THEN FixDoc(expenses[n]) ELSE expenses[n]
         IN IF email \in Range(doc.participants)
            THEN ProcessExpense(acc, n, doc, email) ELSE acc

SweptView(email, S) == FoldPayments(SweptExpenses(Len(expenses), email, S), 1, email)

ReadsAlikeAcrossSweep ==
    \A email \in Emails :
        /\ SweptView(email, {}) = get_user_expenses_by_email(email)
        /\ \A S \in SUBSET (1..Len(expenses)) :
              Balances(SweptView(email, S)) = Balances(get_user_expenses_by_email(email))

(***************************************************************************)
(* C30. The repair sweep is invisible to the read side: for any store and  *)
(* any viewing email, the net_balances and group_balances returned by      *)
(* get_user_expenses_by_email are the same before fix_expenses runs, after *)
(* it has finished, and when the aggregation runs between or across the    *)
(* individual update steps of a sweep, because the read side already       *)
(* applies the equal-split fallback to every record the sweep rewrites.    *)
(***************************************************************************)
C30_SweepInvisibleToReads ==
    /\ []ReadsAlikeAcrossSweep
    /\ [][SweepRewritesBySteps]_vars

(* midway through a sweep: one violating record has been rewritten, the     *)
(* other is still to be reached, and a's view holds a balance with b        *)
C30_Witness ==
    /\ last.op = "fix_expenses_step"
    /\ \E i, j \in 1..Len(expenses) :
          /\ ViolatesSplitInvariant(expenses[i])
          /\ expenses[j].split_method = "equal"
          /\ expenses[j].paid_by = "b"
          /\ expenses[j].participants = <<"a", "b">>
    /\ Get(get_user_expenses_by_email("a").net_balances, "b") # 0

====
